---- MODULE Spec2Model ----
(***************************************************************************)
(* The merge comparison of two sorted CSV snapshots: compare_snapshots of  *)
(* src/csv_compare_2.py (lines 134-258) with get_row_key and               *)
(* validate_csv_headers.  compare_sorted_csv of src/csv_compare.py (lines  *)
(* 57-82) runs the same three loops without the counters and without the   *)
(* exception handlers.                                                     *)
(*                                                                         *)
(* Text is modelled as a sequence of character codes, compared as Python   *)
(* compares str; a key is a tuple of texts, compared as Python compares    *)
(* tuples.  A CSV file is its header line (absent in an empty file) and    *)
(* its data rows; a row is a mapping from column names to cells.           *)
(***************************************************************************)
EXTENDS Integers, Sequences, FiniteSets, TLC

\* The total number of data rows of the two snapshots together.
MaxRecords == 4

\* KEY_COLUMNS, src/csv_compare_2.py line 18.
KEY_COLUMNS == <<"Path", "Name">>

\* Cell texts: "a", "ab", "x", "y", and the text of str(None).
Txt_a == <<97>>
Txt_ab == <<97, 98>>
Txt_x == <<120>>
Txt_y == <<121>>
Txt_None == <<78, 111, 110, 101>>

\* The cell csv.DictReader stores for a field a short line does not have
\* (restval = None).  No text holds the code 0.
NoneCell == <<0>>

\* next(reader, None) at the end of the file: no current row.
NoRow == [eof |-> TRUE]

\* str(v) of line 37: the identity on text, "None" on None.
str(v) == IF v = NoneCell THEN Txt_None ELSE v

\* Python's a < b on str: the first differing code decides, a proper prefix
\* is smaller.
StrLess(a, b) ==
    \E i \in 1..(Len(a) + 1) :
        /\ i <= Len(b)
        /\ \A j \in 1..(i - 1) : a[j] = b[j]
        /\ (i = Len(a) + 1 \/ a[i] < b[i])

\* The mutated comparison: only the first component of the key decides.
TupleLessFirstOnly(k1, k2) == StrLess(k1[1], k2[1])

\* Python's key1 < key2 on tuples (line 225): the first differing component
\* decides, a proper prefix is smaller.
TupleLess(k1, k2) ==
    \E i \in 1..(Len(k1) + 1) :
        /\ i <= Len(k2)
        /\ \A j \in 1..(i - 1) : k1[j] = k2[j]
        /\ (i = Len(k1) + 1 \/ StrLess(k1[i], k2[i]))

\* get_row_key raises KeyError (lines 37-40): the row lacks a key column.
RaisesKeyError(row) == \E i \in 1..Len(KEY_COLUMNS) : KEY_COLUMNS[i] \notin DOMAIN row

\* The mutated key: the first key column alone.
get_row_key_first_only(row) == <<str(row[KEY_COLUMNS[1]])>>

\* get_row_key (line 37): the tuple of str(row[col]) over the key columns.
get_row_key(row) == [i \in 1..Len(KEY_COLUMNS) |-> str(row[KEY_COLUMNS[i]])]

\* The mutated branch: the two comparisons exchanged.
BranchSwapped(key1, key2) ==
    IF key1 = key2 THEN "equal"
    ELSE IF TupleLess(key1, key2) THEN "greater"
    ELSE "less"

\* The mutated branch: no test for equal keys, "if key1 < key2 ... else ...".
BranchNeverEqual(key1, key2) ==
    IF TupleLess(key1, key2) THEN "less" ELSE "greater"

\* The mutated branch: "key1 <= key2" in place of "key1 < key2", tested first.
BranchLessOrEqual(key1, key2) ==
    IF key1 = key2 \/ TupleLess(key1, key2) THEN "less" ELSE "greater"

\* The branch of one iteration of the main loop (lines 222-229).
Branch(key1, key2) ==
    IF key1 = key2 THEN "equal"
    ELSE IF TupleLess(key1, key2) THEN "less"
    ELSE "greater"

\* The header lines of the model's files.
FullHeader == <<"Path", "Name">>
HeaderLines == {FullHeader, <<"Name">>, <<"Size">>}

\* The data rows a file with the given header can hold.  Under the full
\* header: three well-formed rows, the row DictReader yields for the short
\* line "a" (Name is None), and a row without the Name column at all, the
\* malformed record get_row_key's KeyError handler is written for.
RowsOf(header) ==
    IF header = FullHeader
    THEN { [Path |-> Txt_a, Name |-> Txt_x],
           [Path |-> Txt_a, Name |-> Txt_y],
           [Path |-> Txt_ab, Name |-> Txt_x],
           [Path |-> Txt_a, Name |-> NoneCell],
           [Path |-> Txt_a] }
    ELSE IF header = <<"Name">> THEN { [Name |-> Txt_x] }
    ELSE { [Size |-> Txt_x] }

\* The sequences over S of length at most n.
SeqsUpTo(S, n) == UNION { [1..k -> S] : k \in 0..n }

\* A file: no header line and no rows (the empty file), or a header line
\* and rows that fit it.
Files(n) ==
    {[header |-> <<>>, rows |-> <<>>]} \cup
    UNION { { [header |-> <<h>>, rows |-> r] : r \in SeqsUpTo(RowsOf(h), n) } : h \in HeaderLines }

Range(s) == { s[i] : i \in DOMAIN s }

VARIABLES
    header1, header2,           \* the header line of each snapshot: <<>> or <<h>>
    data1, data2,               \* the data rows of each snapshot
    pos1, pos2,                 \* reader1, reader2: rows consumed so far
    row1, row2,                 \* the current rows (NoRow: none)
    inserts, deletes,           \* the rows written to the two outputs
    insert_count, delete_count, \* lines 215-216
    pc,                         \* "setup", "fetch", "scan", "done"
    result,                     \* the terminal outcome
    fetched1, fetched2,         \* per row: times next() returned it
    compared1, compared2,       \* per row: main-loop iterations that compared its key
    del_src, ins_src,           \* per written row: its index in its snapshot
    exhausted1, exhausted2,     \* per reader: times next() returned None
    iterations                  \* loop iterations begun, the three loops together

inputs == <<header1, header2, data1, data2>>
readers == <<pos1, pos2, row1, row2, fetched1, fetched2, exhausted1, exhausted2>>
outputs == <<inserts, deletes, insert_count, delete_count, del_src, ins_src>>
vars == <<inputs, readers, outputs, compared1, compared2, iterations, pc, result>>

NoResult == [kind |-> "none"]

Init ==
    /\ \E f1 \in Files(MaxRecords) :
         \E f2 \in Files(MaxRecords - Len(f1.rows)) :
            /\ header1 = f1.header /\ data1 = f1.rows
            /\ header2 = f2.header /\ data2 = f2.rows
    /\ pos1 = 0 /\ pos2 = 0
    /\ row1 = NoRow /\ row2 = NoRow
    /\ inserts = <<>> /\ deletes = <<>>
    /\ insert_count = 0 /\ delete_count = 0
    /\ pc = "setup"
    /\ result = NoResult
    /\ fetched1 = [i \in 1..Len(data1) |-> 0]
    /\ fetched2 = [i \in 1..Len(data2) |-> 0]
    /\ compared1 = [i \in 1..Len(data1) |-> 0]
    /\ compared2 = [i \in 1..Len(data2) |-> 0]
    /\ del_src = <<>> /\ ins_src = <<>>
    /\ exhausted1 = 0 /\ exhausted2 = 0
    /\ iterations = 0

(***************************************************************************)
(* Header validation and the opening of the outputs (lines 179-209).       *)
(***************************************************************************)

\* missing_cols of line 46, in the order of the key columns.
missing_cols(fieldnames) ==
    SelectSeq(KEY_COLUMNS, LAMBDA col : col \notin Range(fieldnames))

\* validate_csv_headers (lines 42-51): the MissingColumnError it raises for
\* the file, or NoResult when the header passes.  A file without a header
\* line has reader.fieldnames None; the message of line 45 names the file
\* and no column.
validate_csv_headers(header, filename) ==
    IF header = <<>>
    THEN [kind |-> "MissingColumnError", file |-> filename,
          message |-> "Could not read header", cols |-> <<>>]
    ELSE IF missing_cols(header[1]) # <<>>
    THEN [kind |-> "MissingColumnError", file |-> filename,
          message |-> "is missing required columns", cols |-> missing_cols(header[1])]
    ELSE NoResult

\* The mutated validation: snapshot2's header is not validated.
HeaderErrorFirstOnly == validate_csv_headers(header1, 1)

\* Lines 182-183: snapshot1 is validated first, then snapshot2.
HeaderError ==
    IF validate_csv_headers(header1, 1) # NoResult
    THEN validate_csv_headers(header1, 1)
    ELSE validate_csv_headers(header2, 2)

\* Lines 182-183 and 207-209: a header fails validation; the error is
\* re-raised before any output is opened and before any row is read.
SetupMissingColumn ==
    /\ pc = "setup"
    /\ HeaderError # NoResult
    /\ pc' = "done"
    /\ result' = HeaderError
    /\ UNCHANGED <<inputs, readers, outputs, compared1, compared2, iterations>>

\* Lines 191-206: opening an output or writing its header raises IOError,
\* re-raised as FileOpenError.  (The check of line 187 cannot fail once both
\* headers hold the key columns.)
SetupOpenError ==
    /\ pc = "setup"
    /\ HeaderError = NoResult
    /\ pc' = "done"
    /\ result' = [kind |-> "FileOpenError"]
    /\ UNCHANGED <<inputs, readers, outputs, compared1, compared2, iterations>>

\* Lines 179-202 without an exception.
SetupOk ==
    /\ pc = "setup"
    /\ HeaderError = NoResult
    /\ pc' = "fetch"
    /\ UNCHANGED <<result, inputs, readers, outputs, compared1, compared2, iterations>>

(***************************************************************************)
(* The readers: next(reader, None).                                        *)
(***************************************************************************)

\* What a failing next() raises: csv.Error, or IOError from the file.
ReadErrors == {"csv.Error", "IOError"}

\* The mutated handlers: IOError is caught with the other two.
RaisedAsReadError(e) == [kind |-> "CsvReadError", cause |-> e]

\* The handlers of lines 246-256: csv.Error and KeyError become
\* CsvReadError, IOError is re-raised as it is.
Raised(e) ==
    IF e \in {"csv.Error", "KeyError"}
    THEN [kind |-> "CsvReadError", cause |-> e]
    ELSE [kind |-> "IOError", cause |-> e]

Fail(e) == pc' = "done" /\ result' = Raised(e)

NextRow(data, pos) == IF pos < Len(data) THEN data[pos + 1] ELSE NoRow
NextPos(data, pos) == IF pos < Len(data) THEN pos + 1 ELSE pos
Fetched(f, data, pos) == IF pos < Len(data) THEN [f EXCEPT ![pos + 1] = @ + 1] ELSE f
Exhausted(n, data, pos) == IF pos < Len(data) THEN n ELSE n + 1

\* row1 = next(reader1, None)
Advance1 ==
    /\ row1' = NextRow(data1, pos1)
    /\ pos1' = NextPos(data1, pos1)
    /\ fetched1' = Fetched(fetched1, data1, pos1)
    /\ exhausted1' = Exhausted(exhausted1, data1, pos1)

\* row2 = next(reader2, None)
Advance2 ==
    /\ row2' = NextRow(data2, pos2)
    /\ pos2' = NextPos(data2, pos2)
    /\ fetched2' = Fetched(fetched2, data2, pos2)
    /\ exhausted2' = Exhausted(exhausted2, data2, pos2)

Stay1 == UNCHANGED <<row1, pos1, fetched1, exhausted1>>
Stay2 == UNCHANGED <<row2, pos2, fetched2, exhausted2>>

\* The two reads in a row of lines 213-214 and 223-224: both succeed and the
\* run goes on at "scan", or the first raises, or the second raises.
AdvanceBoth ==
    \/ Advance1 /\ Advance2 /\ pc' = "scan" /\ UNCHANGED result
    \/ \E e \in ReadErrors : Stay1 /\ Stay2 /\ Fail(e)
    \/ \E e \in ReadErrors : Advance1 /\ Stay2 /\ Fail(e)

\* Lines 213-216: the first row of each snapshot, the counters at 0.
FetchFirst ==
    /\ pc = "fetch"
    /\ AdvanceBoth
    /\ insert_count' = 0
    /\ delete_count' = 0
    /\ UNCHANGED <<inputs, inserts, deletes, del_src, ins_src, compared1, compared2, iterations>>

(***************************************************************************)
(* The writers and the three loops (lines 218-242).                        *)
(***************************************************************************)

\* The mutated writer: the row goes in front of the rows written before.
writerow_in_front(out, row) == <<row>> \o out

\* writer.writerow(row): the row is appended to the output.
writerow(out, row) == Append(out, row)

\* The mutated emission: the row is written and not counted.
EmitDeleteUncounted ==
    \/ /\ UNCHANGED <<deletes, delete_count, del_src>>
       /\ Stay1 /\ Fail("IOError")
    \/ /\ deletes' = writerow(deletes, row1)
       /\ delete_count' = delete_count
       /\ del_src' = Append(del_src, pos1)
       /\ \/ Advance1 /\ UNCHANGED <<pc, result>>
          \/ \E e \in ReadErrors : Stay1 /\ Fail(e)

\* Lines 226-228, and 235-237 in the drain loop: write row1 to the delete
\* output, count it, read the next row of snapshot1.  writerow may raise
\* IOError (nothing is counted then); the read may raise after the write.
EmitDelete ==
    \/ /\ UNCHANGED <<deletes, delete_count, del_src>>
       /\ Stay1 /\ Fail("IOError")
    \/ /\ deletes' = writerow(deletes, row1)
       /\ delete_count' = delete_count + 1
       /\ del_src' = Append(del_src, pos1)
       /\ \/ Advance1 /\ UNCHANGED <<pc, result>>
          \/ \E e \in ReadErrors : Stay1 /\ Fail(e)

\* Lines 230-232, and 240-242 in the drain loop: the same for row2 and the
\* insert output.
EmitInsert ==
    \/ /\ UNCHANGED <<inserts, insert_count, ins_src>>
       /\ Stay2 /\ Fail("IOError")
    \/ /\ inserts' = writerow(inserts, row2)
       /\ insert_count' = insert_count + 1
       /\ ins_src' = Append(ins_src, pos2)
       /\ \/ Advance2 /\ UNCHANGED <<pc, result>>
          \/ \E e \in ReadErrors : Stay2 /\ Fail(e)

\* One more pass through the body of one of the three loops (lines 218,
\* 234, 239).
CountIteration == iterations' = iterations + 1

\* The condition of the main loop, line 218.
InMainLoop == pc = "scan" /\ row1 # NoRow /\ row2 # NoRow

\* An iteration of the main loop that computes key1 and key2 and compares
\* them (lines 219-225).
CountCompared ==
    /\ compared1' = [compared1 EXCEPT ![pos1] = @ + 1]
    /\ compared2' = [compared2 EXCEPT ![pos2] = @ + 1]

\* Lines 219-220 and 246-253: get_row_key raises KeyError for row1 or for
\* row2, which ends the run as CsvReadError before the keys are compared.
MainKeyError ==
    /\ InMainLoop
    /\ RaisesKeyError(row1) \/ RaisesKeyError(row2)
    /\ CountIteration
    /\ Fail("KeyError")
    /\ UNCHANGED <<inputs, readers, outputs, compared1, compared2>>

\* Lines 222-224: equal keys, both readers advance, nothing is written.
MainEqual ==
    /\ InMainLoop
    /\ ~RaisesKeyError(row1) /\ ~RaisesKeyError(row2)
    /\ Branch(get_row_key(row1), get_row_key(row2)) = "equal"
    /\ CountCompared
    /\ CountIteration
    /\ AdvanceBoth
    /\ UNCHANGED <<inputs, outputs>>

\* Lines 225-228: key1 < key2, row1 is a deletion.
MainLess ==
    /\ InMainLoop
    /\ ~RaisesKeyError(row1) /\ ~RaisesKeyError(row2)
    /\ Branch(get_row_key(row1), get_row_key(row2)) = "less"
    /\ CountCompared
    /\ CountIteration
    /\ EmitDelete
    /\ Stay2
    /\ UNCHANGED <<inputs, inserts, insert_count, ins_src>>

\* Lines 229-232: key1 > key2, row2 is an insertion.
MainGreater ==
    /\ InMainLoop
    /\ ~RaisesKeyError(row1) /\ ~RaisesKeyError(row2)
    /\ Branch(get_row_key(row1), get_row_key(row2)) = "greater"
    /\ CountCompared
    /\ CountIteration
    /\ EmitInsert
    /\ Stay1
    /\ UNCHANGED <<inputs, deletes, delete_count, del_src>>

\* Lines 234-237: the main loop is over and snapshot1 has rows left.
Drain1 ==
    /\ pc = "scan" /\ ~InMainLoop
    /\ row1 # NoRow
    /\ CountIteration
    /\ EmitDelete
    /\ Stay2
    /\ UNCHANGED <<inputs, inserts, insert_count, ins_src, compared1, compared2>>

\* The mutated second drain loop: the loop is missing, the rows left in
\* snapshot2 are never read and the run reports success.
Drain2Skipped ==
    /\ pc = "scan" /\ ~InMainLoop
    /\ row1 = NoRow /\ row2 # NoRow
    /\ pc' = "done"
    /\ result' = [kind |-> "success", insertions |-> insert_count, deletions |-> delete_count]
    /\ UNCHANGED <<inputs, readers, outputs, compared1, compared2, iterations>>

\* Lines 239-242: the first drain loop is over and snapshot2 has rows left.
Drain2 ==
    /\ pc = "scan" /\ ~InMainLoop
    /\ row1 = NoRow /\ row2 # NoRow
    /\ CountIteration
    /\ EmitInsert
    /\ Stay1
    /\ UNCHANGED <<inputs, deletes, delete_count, del_src, compared1, compared2>>

\* Lines 244 and 258: the three loops are over; the counts are reported.
Finish ==
    /\ pc = "scan"
    /\ row1 = NoRow /\ row2 = NoRow
    /\ pc' = "done"
    /\ result' = [kind |-> "success", insertions |-> insert_count, deletions |-> delete_count]
    /\ UNCHANGED <<inputs, readers, outputs, compared1, compared2, iterations>>

Next ==
    \/ SetupMissingColumn
    \/ SetupOpenError
    \/ SetupOk
    \/ FetchFirst
    \/ MainKeyError
    \/ MainEqual
    \/ MainLess
    \/ MainGreater
    \/ Drain1
    \/ Drain2
    \/ Finish

Spec == Init /\ [][Next]_vars

\* compare_snapshots is one sequential, synchronous call: while a step is
\* possible the interpreter takes one.
FairSpec == Spec /\ WF_vars(Next)

(***************************************************************************)
(* The vocabulary of the properties: Key and its order as the data model   *)
(* defines them, stated apart from the operators of the code above.        *)
(***************************************************************************)

\* The record carries every key column.
Keyed(rec) == "Path" \in DOMAIN rec /\ "Name" \in DOMAIN rec

\* The string representation of a cell.
CellText(v) == IF v = NoneCell THEN Txt_None ELSE v

\* Key: the tuple of the record's values at Path and Name.
Key(rec) == <<CellText(rec.Path), CellText(rec.Name)>>

\* Text a comes before text b.
TextBefore(a, b) ==
    LET m == IF Len(a) < Len(b) THEN Len(a) ELSE Len(b)
        diff == { i \in 1..m : a[i] # b[i] }
    IN  IF diff = {} THEN Len(a) < Len(b)
        ELSE \E d \in diff : (\A i \in diff : d <= i) /\ a[d] < b[d]

\* Lexicographic order of keys, component by component from the left.
KeyBefore(k1, k2) ==
    \/ TextBefore(k1[1], k2[1])
    \/ k1[1] = k2[1] /\ TextBefore(k1[2], k2[2])

AllKeyed(s) == \A i \in DOMAIN s : Keyed(s[i])

\* Non-decreasing by Key; equal neighbours allowed.
NonDecreasing(s) ==
    AllKeyed(s) /\ \A i \in 1..(Len(s) - 1) : ~KeyBefore(Key(s[i + 1]), Key(s[i]))

\* Increasing by Key: no Key twice.
Increasing(s) ==
    AllKeyed(s) /\ \A i \in 1..(Len(s) - 1) : KeyBefore(Key(s[i]), Key(s[i + 1]))

SortedInputs == NonDecreasing(data1) /\ NonDecreasing(data2)

\* Every record carries a value for every key column.
Complete(s) ==
    \A i \in DOMAIN s : Keyed(s[i]) /\ s[i].Path # NoneCell /\ s[i].Name # NoneCell

\* The keys of the keyed records of a sequence.
KeysOf(s) == { Key(s[i]) : i \in { j \in DOMAIN s : Keyed(s[j]) } }

\* How many records of s carry the key k.
Occurrences(s, k) == Cardinality({ i \in DOMAIN s : Keyed(s[i]) /\ Key(s[i]) = k })

\* The indices of the records of s whose Key is the Key of no record of t.
Unmatched(s, t) == { i \in DOMAIN s : Key(s[i]) \notin KeysOf(t) }

\* The members of a set of indices of s, in ascending order.
Ascending(s, idx) == SelectSeq([i \in 1..Len(s) |-> i], LAMBDA i : i \in idx)

\* Each written row is the row of its snapshot at the recorded index.
WrittenFromSource ==
    /\ Len(del_src) = Len(deletes) /\ Len(ins_src) = Len(inserts)
    /\ \A k \in DOMAIN deletes : deletes[k] = data1[del_src[k]]
    /\ \A k \in DOMAIN inserts : inserts[k] = data2[ins_src[k]]

Succeeded == pc = "done" /\ result.kind = "success"

\* C1 (coverage): when the comparison of two streams, each non-decreasing by
\* Key with every row carrying the key columns, succeeds, the stream1
\* records whose Key is the Key of no stream2 record are in the delete
\* output exactly once each and in stream1 order; the same for stream2 and
\* the insert output.
C1_Coverage ==
    (Succeeded /\ SortedInputs) =>
        /\ WrittenFromSource
        /\ SelectSeq(del_src, LAMBDA i : i \in Unmatched(data1, data2))
              = Ascending(data1, Unmatched(data1, data2))
        /\ SelectSeq(ins_src, LAMBDA i : i \in Unmatched(data2, data1))
              = Ascending(data2, Unmatched(data2, data1))

\* A successful run over sorted streams with unmatched records on both
\* sides and a matched pair.
C1_Witness ==
    /\ Succeeded /\ SortedInputs
    /\ Cardinality(Unmatched(data1, data2)) >= 1
    /\ Cardinality(Unmatched(data2, data1)) >= 1
    /\ KeysOf(data1) \cap KeysOf(data2) # {}

\* C2 as stated (soundness with duplicate keys allowed): for streams each
\* non-decreasing by Key, every record in the delete output has a Key
\* present in stream1 and absent from stream2, and every record in the
\* insert output a Key present in stream2 and absent from stream1.  Stated
\* here for streams of complete records only.
C2_SoundWithDuplicates ==
    (SortedInputs /\ Complete(data1) /\ Complete(data2)) =>
        /\ \A k \in DOMAIN deletes : Key(deletes[k]) \in KeysOf(data1) \ KeysOf(data2)
        /\ \A k \in DOMAIN inserts : Key(inserts[k]) \in KeysOf(data2) \ KeysOf(data1)

\* C2 (amended): for streams each non-decreasing by Key, every record in the
\* delete output has a Key that occurs more often in stream1 than in
\* stream2, and every record in the insert output a Key that occurs more
\* often in stream2 than in stream1; when no Key occurs twice within a
\* stream this is: present in the one stream and absent from the other.
C2_Soundness ==
    /\ SortedInputs =>
        /\ \A k \in DOMAIN deletes :
              Occurrences(data1, Key(deletes[k])) > Occurrences(data2, Key(deletes[k]))
        /\ \A k \in DOMAIN inserts :
              Occurrences(data2, Key(inserts[k])) > Occurrences(data1, Key(inserts[k]))
    /\ (Increasing(data1) /\ Increasing(data2)) =>
        /\ \A k \in DOMAIN deletes : Key(deletes[k]) \in KeysOf(data1) \ KeysOf(data2)
        /\ \A k \in DOMAIN inserts : Key(inserts[k]) \in KeysOf(data2) \ KeysOf(data1)

\* Sorted streams, a Key repeated in stream1, and a record written to the
\* delete output while the other stream is drained and in the main loop.
C2_Witness ==
    /\ Succeeded /\ SortedInputs
    /\ Len(deletes) >= 1 /\ Len(inserts) >= 1
    /\ \E k \in DOMAIN deletes : Key(deletes[k]) \in KeysOf(data2)

\* C3 as stated (disjointness in any run): no Key occurs both among the
\* records of the insert output and among those of the delete output.  Stated
\* here for streams of complete records only.
C3_DisjointInAnyRun ==
    (Complete(data1) /\ Complete(data2)) => KeysOf(inserts) \cap KeysOf(deletes) = {}

\* C3 (amended): in a run over streams that are each non-decreasing by Key,
\* at every point of the scan and at its end, no Key occurs in both outputs.
C3_Disjoint == SortedInputs => KeysOf(inserts) \cap KeysOf(deletes) = {}

\* A finished run over sorted streams that wrote to both outputs.
C3_Witness ==
    /\ Succeeded /\ SortedInputs
    /\ inserts # <<>> /\ deletes # <<>>
    /\ Len(data1) >= 2

\* C4 (sortedness preservation): for streams each non-decreasing by Key,
\* after every emit step each output is non-decreasing by Key, being a
\* subsequence of its stream in stream order.
C4_SortedOutputs ==
    SortedInputs =>
        /\ NonDecreasing(deletes) /\ NonDecreasing(inserts)
        /\ WrittenFromSource
        /\ \A k \in 1..(Len(del_src) - 1) : del_src[k] < del_src[k + 1]
        /\ \A k \in 1..(Len(ins_src) - 1) : ins_src[k] < ins_src[k + 1]

\* Two records with different keys are in the delete output, and the insert
\* output is not empty.
C4_Witness ==
    /\ SortedInputs
    /\ Len(deletes) >= 2 /\ KeyBefore(Key(deletes[1]), Key(deletes[2]))
    /\ Len(inserts) >= 1

\* The run met no failure of the streams or of the output files.
NoStreamFailure ==
    /\ result.kind \notin {"FileOpenError", "IOError"}
    /\ result.kind = "CsvReadError" => result.cause # "csv.Error"

\* C5 (no-op on identical input): comparing a sorted stream of well-formed
\* records with an identical copy writes nothing to either output at any
\* point, keeps both counts at 0, and, unless a stream or an output file
\* fails, ends in success reporting 0 insertions and 0 deletions.
C5_IdenticalNoOp ==
    (header1 = <<FullHeader>> /\ header2 = header1 /\ data2 = data1 /\ NonDecreasing(data1)) =>
        /\ inserts = <<>> /\ deletes = <<>>
        /\ insert_count = 0 /\ delete_count = 0
        /\ (pc = "done" /\ NoStreamFailure) =>
              result = [kind |-> "success", insertions |-> 0, deletions |-> 0]

\* A stream of two records with the same Key compared with its copy has
\* ended in success.
C5_Witness ==
    /\ Succeeded
    /\ data2 = data1 /\ Len(data1) = 2 /\ NonDecreasing(data1)
    /\ Key(data1[1]) = Key(data1[2])
    /\ compared1 = <<1, 1>>

\* The key columns absent from a header line; all of them when the file has
\* no header line.
AbsentFrom(header) ==
    { c \in Range(KEY_COLUMNS) : header = <<>> \/ c \notin Range(header[1]) }

HeaderOf(n) == IF n = 1 THEN header1 ELSE header2

SomeColumnMissing == AbsentFrom(header1) # {} \/ AbsentFrom(header2) # {}

\* Nothing was read from either stream and nothing written to an output.
NothingConsumed ==
    /\ pos1 = 0 /\ pos2 = 0 /\ row1 = NoRow /\ row2 = NoRow
    /\ \A i \in DOMAIN fetched1 : fetched1[i] = 0
    /\ \A i \in DOMAIN fetched2 : fetched2[i] = 0
    /\ inserts = <<>> /\ deletes = <<>>

\* C6 as stated (missing key column): when a key column is absent from a
\* header, or a stream has no header at all, the comparison ends in a
\* precondition failure naming the offending stream and the columns missing
\* from it, with no data row consumed and no output row emitted.
C6_NamesMissingColumns ==
    SomeColumnMissing =>
        /\ pc \in {"setup", "done"}
        /\ NothingConsumed
        /\ pc = "done" =>
              /\ result.kind = "MissingColumnError"
              /\ AbsentFrom(HeaderOf(result.file)) # {}
              /\ Range(result.cols) = AbsentFrom(HeaderOf(result.file))

\* C6 (amended): when a key column is absent from a header, or a stream has
\* no header at all, the comparison ends in a precondition failure that
\* names the offending stream (stream1 when both offend) and, when that
\* stream has a header, the key columns missing from it; for a stream with
\* no header the failure names the stream and no column.  No data row of
\* either stream is consumed and no output row is emitted.
C6_MissingColumn ==
    SomeColumnMissing =>
        /\ pc \in {"setup", "done"}
        /\ NothingConsumed
        /\ pc = "done" =>
              /\ result.kind = "MissingColumnError"
              /\ AbsentFrom(HeaderOf(result.file)) # {}
              /\ result.file = 2 => AbsentFrom(header1) = {}
              /\ IF HeaderOf(result.file) = <<>>
                 THEN result.cols = <<>>
                 ELSE /\ Range(result.cols) = AbsentFrom(HeaderOf(result.file))
                      /\ Len(result.cols) = Cardinality(AbsentFrom(HeaderOf(result.file)))

\* The comparison has failed on the header of stream2, which lacks a key
\* column, while stream1 is in order and both streams hold data rows.
C6_Witness ==
    /\ pc = "done" /\ result.kind = "MissingColumnError"
    /\ result.file = 2 /\ result.cols = <<"Path">>
    /\ header1 = <<FullHeader>> /\ Len(data1) >= 1 /\ Len(data2) >= 1

\* The record lacks a value for a key column: the column is absent from the
\* row, or the row of a short line holds None for it.
LacksKeyValue(rec) ==
    \E c \in Range(KEY_COLUMNS) : c \notin DOMAIN rec \/ rec[c] = NoneCell

SomeRowLacksKeyValue ==
    \/ \E i \in DOMAIN data1 : LacksKeyValue(data1[i])
    \/ \E i \in DOMAIN data2 : LacksKeyValue(data2[i])

\* C7 as stated (malformed row): when both headers pass validation and some
\* row of either stream lacks a value for a key column, the comparison never
\* ends in success, wherever the row sits; unless a stream or an output
\* file fails first it ends in the malformed-row failure.
C7_MalformedRowFails ==
    (pc = "done" /\ ~SomeColumnMissing /\ SomeRowLacksKeyValue) =>
        /\ result.kind # "success"
        /\ NoStreamFailure => (result.kind = "CsvReadError" /\ result.cause = "KeyError")

\* The failure classes: a missing key column is a precondition violation, a
\* KeyError of get_row_key a malformed row, an error of a reader or of a
\* writer a stream failure.
ClassOf(cause) ==
    IF cause = "KeyError" THEN "malformed-row" ELSE "stream-failure"

ScanCauses == {"KeyError", "csv.Error", "IOError"}

Terminal == pc = "done" => ~ENABLED Next

SmallerIn(s, rec) ==
    Cardinality({ j \in DOMAIN s : Keyed(s[j]) /\ KeyBefore(Key(s[j]), Key(rec)) })

\* How often the index i occurs in a sequence of indices.
TimesIn(src, i) == Cardinality({ k \in DOMAIN src : src[k] = i })

\* C9 as stated (per-record work bound): in a successful run each record is
\* fetched exactly once, takes part in at most two iterations of the main
\* loop and is written at most once.
C9_ComparedAtMostTwice ==
    Succeeded =>
        /\ \A i \in DOMAIN data1 :
              fetched1[i] = 1 /\ compared1[i] <= 2 /\ TimesIn(del_src, i) <= 1
        /\ \A j \in DOMAIN data2 :
              fetched2[j] = 1 /\ compared2[j] <= 2 /\ TimesIn(ins_src, j) <= 1

\* C9 (amended): in a successful run each record is fetched exactly once and
\* written at most once, and it takes part in at most one iteration of the
\* main loop more than the other stream has records with a smaller Key
\* (every iteration but its last consumes such a record), which can be more
\* than two.
C9_WorkBound ==
    /\ \A i \in DOMAIN data1 :
          /\ fetched1[i] <= 1 /\ TimesIn(del_src, i) <= 1
          /\ Succeeded => fetched1[i] = 1
          /\ compared1[i] > 0 => compared1[i] <= 1 + SmallerIn(data2, data1[i])
    /\ \A j \in DOMAIN data2 :
          /\ fetched2[j] <= 1 /\ TimesIn(ins_src, j) <= 1
          /\ Succeeded => fetched2[j] = 1
          /\ compared2[j] > 0 => compared2[j] <= 1 + SmallerIn(data1, data2[j])

\* A successful run over sorted streams in which a record of stream1 took
\* part in three iterations of the main loop.
C9_Witness ==
    /\ Succeeded /\ SortedInputs
    /\ \E i \in DOMAIN data1 : compared1[i] = 3

\* C10 (count accuracy): at every point of the scan the insertion count is
\* the number of records written to the insert output and the deletion
\* count the number written to the delete output; on success the reported
\* counts are the lengths of the outputs, and the records left unwritten,
\* matched by equal keys, are counted in neither.
C10_Counts ==
    /\ insert_count = Len(inserts) /\ delete_count = Len(deletes)
    /\ insert_count = Cardinality(Range(ins_src))
    /\ delete_count = Cardinality(Range(del_src))
    /\ Succeeded =>
          /\ result.insertions = Len(inserts) /\ result.deletions = Len(deletes)
          /\ (Len(data1) - delete_count) + (Len(data2) - insert_count)
                = Cardinality({ i \in DOMAIN data1 : compared1[i] > 0 /\ TimesIn(del_src, i) = 0 })
                  + Cardinality({ j \in DOMAIN data2 : compared2[j] > 0 /\ TimesIn(ins_src, j) = 0 })

\* A successful run that wrote to both outputs and matched a pair of
\* records.
C10_Witness ==
    /\ Succeeded
    /\ insert_count >= 1 /\ delete_count >= 1
    /\ Len(data1) > delete_count

\* Both headers hold the key columns and every record of both streams
\* carries a value for every key column.
WellFormedInputs ==
    /\ header1 = <<FullHeader>> /\ header2 = <<FullHeader>>
    /\ Complete(data1) /\ Complete(data2)

\* The current row of each reader is the row at the reader's position, all
\* rows before it have been fetched and none after it.
ReadInOrder ==
    /\ row1 # NoRow => (pos1 >= 1 /\ row1 = data1[pos1])
    /\ row2 # NoRow => (pos2 >= 1 /\ row2 = data2[pos2])
    /\ \A i \in DOMAIN data1 : fetched1[i] = (IF i <= pos1 THEN 1 ELSE 0)
    /\ \A j \in DOMAIN data2 : fetched2[j] = (IF j <= pos2 THEN 1 ELSE 0)

\* The state part of C11.
C11_Safe ==
    WellFormedInputs =>
        /\ iterations <= Len(data1) + Len(data2)
        /\ exhausted1 <= 1 /\ exhausted2 <= 1
        /\ ReadInOrder
        /\ (pc = "done" /\ NoStreamFailure) =>
              /\ result.kind = "success"
              /\ exhausted1 = 1 /\ exhausted2 = 1
              /\ pos1 = Len(data1) /\ pos2 = Len(data2)

\* The step part of C11: a reader never moves back and moves by one row at
\* most.
C11_Forward ==
    /\ pos1' \in {pos1, pos1 + 1}
    /\ pos2' \in {pos2, pos2 + 1}

\* C11 (termination without sortedness check): for two finite streams of n
\* and m well-formed records, sorted by Key or not, the scan always
\* terminates; unless a stream or an output file fails it terminates in
\* success, never with an error for out-of-order input; the three loops
\* together run at most n + m iterations; both readers only move forward,
\* one row at a time, and each reports the end of its stream exactly once.
C11_Termination ==
    /\ []C11_Safe
    /\ [][C11_Forward]_vars
    /\ <>(pc = "done")

\* A successful run over well-formed streams of which one is out of order,
\* that took n + m = 4 iterations and matched no pair.
C11_Witness ==
    /\ Succeeded /\ WellFormedInputs
    /\ ~NonDecreasing(data2)
    /\ Len(data1) >= 1
    /\ iterations = Len(data1) + Len(data2) /\ iterations = 4
    /\ exhausted1 = 1 /\ exhausted2 = 1

====
